---- MODULE Spec2Model ----
(***************************************************************************)
(* Model of app/agent/output_wrapper.py: OutputWrapper, ImageWrapper and   *)
(* get_raw_output, together with the part of the filesystem, environment   *)
(* and network they touch.  Paths and textual tokens are strings built by  *)
(* concatenation exactly as the code builds them; file contents are byte   *)
(* sequences, and a PNG file is its signature followed by the pixel bytes. *)
(* Every filesystem or network call of a constructor is one step of the    *)
(* thread that runs it, so that constructions interleave.                  *)
(***************************************************************************)
EXTENDS Integers, Sequences, FiniteSets, TLC

VARIABLES
    environ,      \* value of os.environ['OUTPUT_FILE_DIRECTORY'] (NoneStr = unset)
    fs,           \* filesystem: path -> entry, for the paths that exist
    pc,           \* per thread: position inside the constructor it is running
    cls,          \* per thread: class being constructed
    image,        \* per thread: the constructor's argument
    root_path,    \* per thread: self.root_path
    path,         \* per thread: self._path
    raw_data,     \* per thread: self._raw_data
    repr,         \* per thread: self._repr
    response,     \* per thread: outcome of requests.get in get_remote_file
    directory,    \* per thread: directory returned by tempfile.mkdtemp
    exc,          \* per thread: exception propagated to the caller
    constructed,  \* number of constructor calls started so far
    exec_result,  \* the collector's mapping key -> value (keys are 1..Len)
    res           \* outcome of the last get_raw_output(exec_result) call

vars == <<environ, fs, pc, cls, image, root_path, path, raw_data, repr,
          response, directory, exc, constructed, exec_result, res>>

-----------------------------------------------------------------------------
(* Bounds *)

\* constructor calls in a behaviour of single-threaded use
MaxCalls == 2
\* constructor calls in a behaviour of concurrent use
NumObjects == 2
\* size of the pool tempfile.mkdtemp draws directory names from
NumDirNames == 2
\* number of distinct values uuid.uuid4() can return (file names may collide)
NumUuids == 1

Threads == {1, 2}
MainThread == 1
DirNames == 1..NumDirNames
Uuids == 1..NumUuids

-----------------------------------------------------------------------------
(* Values *)

NoneStr == "<None>"
NoneImage == [id |-> -1, px |-> <<>>]

\* first bytes of every PNG file
PngSignature == <<137, 80>>

\* numpy astype(np.uint8) on an integer element
Uint8(v) == v % 256

\* Image.fromarray(image.astype(np.uint8)): a new image object (id 0)
FromArray(arr) == [id |-> 0, px |-> [i \in DOMAIN arr |-> Uint8(arr[i])]]

\* faulty variant of EncodePNG (sensitivity test for C8): the last pixel is lost
EncodePNG_Truncating(img) == PngSignature \o SubSeq(img.px, 1, Len(img.px) - 1)

\* Image.save(path) in PNG format: the bytes written
EncodePNG(img) == PngSignature \o img.px

\* PIL recognises the file format by its signature
IsPNG(bytes) ==
    /\ Len(bytes) >= Len(PngSignature)
    /\ SubSeq(bytes, 1, Len(PngSignature)) = PngSignature

\* the pixel content PIL decodes from PNG bytes
DecodePNG(bytes) == SubSeq(bytes, Len(PngSignature) + 1, Len(bytes))

\* constructor arguments: a tagged union over str / numpy array / PIL image
StrInput(s) == [type |-> "str", str |-> s, arr |-> <<>>, img |-> NoneImage]
ArrayInput(a) == [type |-> "ndarray", str |-> "", arr |-> a, img |-> NoneImage]
ImageInput(i) == [type |-> "Image", str |-> "", arr |-> <<>>, img |-> i]
NoInput == [type |-> "none", str |-> "", arr |-> <<>>, img |-> NoneImage]

URLs == {"http://host/a.png"}
Strings == {"/img.png", "/notes.txt", "/tmp"} \cup URLs
Arrays == {<<263, -1>>}
Handles == {[id |-> 1, px |-> <<7>>]}
Inputs ==
    {StrInput(s) : s \in Strings} \cup {ArrayInput(a) : a \in Arrays}
        \cup {ImageInput(h) : h \in Handles}
InMemoryInputs == {ArrayInput(a) : a \in Arrays} \cup {ImageInput(h) : h \in Handles}

\* what a GET to a URL can deliver: a body (any bytes) or a RequestException
NoResponse == [status |-> "none", content |-> <<>>]
RequestException == [status |-> "RequestException", content |-> <<>>]
Bodies == {PngSignature \o <<9>>, <<60, 104>>}
Responses == {RequestException} \cup {[status |-> "ok", content |-> b] : b \in Bodies}

NoExc == [type |-> "none", msg |-> ""]
Raise(type, msg) == [type |-> type, msg |-> msg]

-----------------------------------------------------------------------------
(* Filesystem *)

Dir(parent, writable) ==
    [kind |-> "dir", bytes |-> <<>>, parent |-> parent, writable |-> writable]
File(parent, bytes) ==
    [kind |-> "file", bytes |-> bytes, parent |-> parent, writable |-> TRUE]

\* tempfile.gettempdir()
TempDir == "/tmp"

InitFs ==
    [p \in {"/", "/tmp", "/out", "/ro", "/notes.txt", "/img.png"} |->
        CASE p = "/" -> Dir("", TRUE)
          [] p = "/tmp" -> Dir("/", TRUE)
          [] p = "/out" -> Dir("/", TRUE)
          [] p = "/ro" -> Dir("/", FALSE)
          [] p = "/notes.txt" -> File("/", <<104, 105>>)
          [] p = "/img.png" -> File("/", EncodePNG([id |-> 0, px |-> <<7>>]))]

\* the values OUTPUT_FILE_DIRECTORY takes: unset, an existing directory, a
\* missing directory that can be created, one that cannot, an existing file
EnvChoices == {NoneStr, "/out", "/new", "/ro/new", "/notes.txt"}

\* os.path.dirname on the configured names
Dirname(p) == IF p = "/ro/new" THEN "/ro" ELSE "/"

\* files another process of the deployment may remove at any time
Removable == {"/img.png"}

Exists(f, p) == p \in DOMAIN f
IsFile(f, p) == p \in DOMAIN f /\ f[p].kind = "file"
IsDir(f, p) == p \in DOMAIN f /\ f[p].kind = "dir"
CanCreateIn(f, d) == IsDir(f, d) /\ f[d].writable

AddEntry(f, p, e) == [q \in DOMAIN f \cup {p} |-> IF q = p THEN e ELSE f[q]]
RemoveEntry(f, p) == [q \in DOMAIN f \ {p} |-> f[q]]

\* os.path.join(a, b)
Join(a, b) == a \o "/" \o b

-----------------------------------------------------------------------------
(* Wrapper objects and the values of the collector's mapping *)

Wrapper(c, p, rd, rp) == [cls |-> c, path |-> p, raw_data |-> rd, repr |-> rp]
NoWrapper == Wrapper("none", NoneStr, NoneImage, NoneStr)

PlainValue(s) == [tag |-> "plain", w |-> NoWrapper, s |-> s, img |-> NoneImage]
WrapperValue(w) == [tag |-> "wrapper", w |-> w, s |-> "", img |-> NoneImage]
ImageValue(i) == [tag |-> "image", w |-> NoWrapper, s |-> "", img |-> i]
StrValue(s) == [tag |-> "str", w |-> NoWrapper, s |-> s, img |-> NoneImage]

\* the object thread t holds
Self(t) == Wrapper(cls[t], path[t], raw_data[t], repr[t])

-----------------------------------------------------------------------------
(* OutputWrapper *)

\* line 29: whether __init__ goes on to os.makedirs
NeedsMakedirs(f, root) == root # NoneStr /\ ~Exists(f, root)

\* lines 30-31: os.makedirs(root) succeeds
MakedirsOk(f, root) == ~Exists(f, root) /\ CanCreateIn(f, Dirname(root))

\* where the constructor goes after OutputWrapper.__init__
AfterInit(c) == IF c = "OutputWrapper" THEN "done" ELSE "body"

\* tempfile.mkdtemp(dir=root): the directory the new one is created in
MkdtempBase(root) == IF root = NoneStr THEN TempDir ELSE root

\* faulty variant of MkdtempNames (sensitivity test for C9): an existing name
\* may be returned again
MkdtempNames_Reusing(f, base) == {Join(base, "tmp" \o ToString(n)) : n \in DirNames}

\* tempfile.mkdtemp: the names it may return, none of which exists yet
MkdtempNames(f, base) ==
    {Join(base, "tmp" \o ToString(n)) : n \in DirNames} \ DOMAIN f

\* the error mkdtemp raises when it cannot create a directory in base
MkdtempError(f, base) ==
    IF ~Exists(f, base) THEN Raise("FileNotFoundError", base)
    ELSE IF ~IsDir(f, base) THEN Raise("NotADirectoryError", base)
    ELSE Raise("PermissionError", base)

\* str(uuid.uuid4()) + '.' + suffix
FileName(u, suffix) == "uuid" \o ToString(u) \o "." \o suffix

\* requests.get(remote_path): a string without a scheme raises MissingSchema,
\* a RequestException, before anything is sent
GetOutcomes(s) == IF s \in URLs THEN Responses ELSE {RequestException}

-----------------------------------------------------------------------------
(* ImageWrapper *)

\* faulty variant of ImageRepr (sensitivity test for C4): the token is not closed
ImageRepr_Unclosed(p) == "![IMAGEGEN](" \o p

\* line 89
ImageRepr(p) == "![IMAGEGEN](" \o p \o ")"

\* line 78
InvalidPath(img) == Raise("FileNotFoundError", "Invalid path: " \o img)

\* lines 80-84: the image that becomes raw_data for a non-string argument
AsImage(inp) == IF inp.type = "Image" THEN inp.img ELSE FromArray(inp.arr)

\* line 74, Image.open(p): the exception it raises, NoExc when it opens
OpenError(f, p) ==
    IF ~Exists(f, p) THEN Raise("FileNotFoundError", p)
    ELSE IF IsDir(f, p) THEN Raise("IsADirectoryError", p)
    ELSE IF ~IsPNG(f[p].bytes) THEN Raise("UnidentifiedImageError", p)
    ELSE NoExc

\* line 74: the image object Image.open returns
Opened(f, p) == [id |-> 0, px |-> DecodePNG(f[p].bytes)]

\* faulty variant of Reraise (sensitivity test for C2): the error of Image.open
\* propagates as it is
Reraise_Unchanged(e, img) == e

\* lines 76-78: what the constructor raises for an error of Image.open
Reraise(e, img) == IF e.type = "FileNotFoundError" THEN InvalidPath(img) ELSE e

\* the bytes written to the new file (line 42, line 87)
Payload(t) ==
    IF image[t].type = "str" THEN response[t].content ELSE EncodePNG(raw_data[t])

-----------------------------------------------------------------------------
(* get_raw_output, lines 93-102 *)

\* truth value of v.raw_data: None is false, a PIL image is true
Truthy(img) == img # NoneImage

\* str(v) raises TypeError when __repr__ returns None
StrRaises(w) == w.repr = NoneStr

\* line 99 / line 101
RawOf(v) ==
    IF v.tag = "wrapper"
    THEN IF Truthy(v.w.raw_data) THEN ImageValue(v.w.raw_data) ELSE StrValue(v.w.repr)
    ELSE v

EntryRaises(v) == v.tag = "wrapper" /\ ~Truthy(v.w.raw_data) /\ StrRaises(v.w)

get_raw_output(er) ==
    IF \E k \in DOMAIN er : EntryRaises(er[k])
    THEN [called |-> TRUE, arg |-> er, out |-> <<>>,
          exc |-> Raise("TypeError", "__str__ returned non-string")]
    ELSE [called |-> TRUE, arg |-> er, out |-> [k \in DOMAIN er |-> RawOf(er[k])],
          exc |-> NoExc]

NotCalled == [called |-> FALSE, arg |-> <<>>, out |-> <<>>, exc |-> NoExc]

-----------------------------------------------------------------------------
(* Initial state *)

Idle == [t \in Threads |-> "idle"]

Init ==
    /\ environ \in EnvChoices
    /\ fs = InitFs
    /\ pc = Idle
    /\ cls = [t \in Threads |-> "none"]
    /\ image = [t \in Threads |-> NoInput]
    /\ root_path = [t \in Threads |-> NoneStr]
    /\ path = [t \in Threads |-> NoneStr]
    /\ raw_data = [t \in Threads |-> NoneImage]
    /\ repr = [t \in Threads |-> NoneStr]
    /\ response = [t \in Threads |-> NoResponse]
    /\ directory = [t \in Threads |-> NoneStr]
    /\ exc = [t \in Threads |-> NoExc]
    /\ constructed = 0
    /\ exec_result = <<PlainValue("text")>>
    /\ res = NotCalled

-----------------------------------------------------------------------------
(* Steps of a constructor call by thread t *)

\* lines 23-29: the call starts; fields are None, root_path is read from the
\* environment and its existence tested
Construct(t, c, inp) ==
    /\ pc[t] = "idle"
    /\ constructed' = constructed + 1
    /\ cls' = [cls EXCEPT ![t] = c]
    /\ image' = [image EXCEPT ![t] = inp]
    /\ root_path' = [root_path EXCEPT ![t] = environ]
    /\ path' = [path EXCEPT ![t] = NoneStr]
    /\ raw_data' = [raw_data EXCEPT ![t] = NoneImage]
    /\ repr' = [repr EXCEPT ![t] = NoneStr]
    /\ pc' = [pc EXCEPT ![t] =
                IF NeedsMakedirs(fs, environ) THEN "makedirs" ELSE AfterInit(c)]
    /\ UNCHANGED <<environ, fs, response, directory, exc, exec_result, res>>

\* lines 30-33: os.makedirs, any exception of which unsets root_path
Makedirs(t) ==
    /\ pc[t] = "makedirs"
    /\ IF MakedirsOk(fs, root_path[t])
       THEN /\ fs' = AddEntry(fs, root_path[t], Dir(Dirname(root_path[t]), TRUE))
            /\ UNCHANGED root_path
       ELSE /\ root_path' = [root_path EXCEPT ![t] = NoneStr]
            /\ UNCHANGED fs
    /\ pc' = [pc EXCEPT ![t] = AfterInit(cls[t])]
    /\ UNCHANGED <<environ, cls, image, path, raw_data, repr, response,
                   directory, exc, constructed, exec_result, res>>

\* lines 68-72 and 79-84: the branch on the argument's type
Body(t) ==
    /\ pc[t] = "body"
    /\ IF image[t].type = "str"
       THEN IF IsFile(fs, image[t].str)
            THEN /\ path' = [path EXCEPT ![t] = image[t].str]
                 /\ pc' = [pc EXCEPT ![t] = "open"]
                 /\ UNCHANGED raw_data
            ELSE /\ pc' = [pc EXCEPT ![t] = "get"]
                 /\ UNCHANGED <<path, raw_data>>
       ELSE /\ raw_data' = [raw_data EXCEPT ![t] = AsImage(image[t])]
            /\ pc' = [pc EXCEPT ![t] = "mkdtemp"]
            /\ UNCHANGED path
    /\ UNCHANGED <<environ, fs, cls, image, root_path, repr, response,
                   directory, exc, constructed, exec_result, res>>

\* lines 36-38 and 44-45: requests.get
Get(t) ==
    /\ pc[t] = "get"
    /\ \E r \in GetOutcomes(image[t].str) :
        /\ response' = [response EXCEPT ![t] = r]
        /\ IF r = RequestException
           THEN /\ path' = [path EXCEPT ![t] = image[t].str]
                /\ pc' = [pc EXCEPT ![t] = "open"]
           ELSE /\ pc' = [pc EXCEPT ![t] = "mkdtemp"]
                /\ UNCHANGED path
    /\ UNCHANGED <<environ, fs, cls, image, root_path, raw_data, repr,
                   directory, exc, constructed, exec_result, res>>

\* line 39 and line 85: tempfile.mkdtemp(dir=self.root_path)
Mkdtemp(t) ==
    /\ pc[t] = "mkdtemp"
    /\ LET base == MkdtempBase(root_path[t]) IN
       IF CanCreateIn(fs, base)
       THEN \E d \in MkdtempNames(fs, base) :
                /\ fs' = AddEntry(fs, d, Dir(base, TRUE))
                /\ directory' = [directory EXCEPT ![t] = d]
                /\ pc' = [pc EXCEPT ![t] = "write"]
                /\ UNCHANGED exc
       ELSE /\ exc' = [exc EXCEPT ![t] = MkdtempError(fs, base)]
            /\ pc' = [pc EXCEPT ![t] = "raised"]
            /\ UNCHANGED <<fs, directory>>
    /\ UNCHANGED <<environ, cls, image, root_path, path, raw_data, repr,
                   response, constructed, exec_result, res>>

\* lines 40-43 and lines 86-89: the file is named and written; an in-memory
\* construction ends here
WriteFile(t) ==
    /\ pc[t] = "write"
    /\ \E u \in Uuids :
        LET p == Join(directory[t], FileName(u, "png")) IN
        /\ fs' = AddEntry(fs, p, File(directory[t], Payload(t)))
        /\ path' = [path EXCEPT ![t] = p]
        /\ IF image[t].type = "str"
           THEN /\ pc' = [pc EXCEPT ![t] = "open"]
                /\ UNCHANGED repr
           ELSE /\ repr' = [repr EXCEPT ![t] = ImageRepr(p)]
                /\ pc' = [pc EXCEPT ![t] = "done"]
    /\ UNCHANGED <<environ, cls, image, root_path, raw_data, response,
                   directory, exc, constructed, exec_result, res>>

\* lines 73-78 and 89: Image.open on self._path
Open(t) ==
    /\ pc[t] = "open"
    /\ LET e == OpenError(fs, path[t]) IN
       IF e = NoExc
       THEN /\ raw_data' = [raw_data EXCEPT ![t] = Opened(fs, path[t])]
            /\ repr' = [repr EXCEPT ![t] = ImageRepr(path[t])]
            /\ pc' = [pc EXCEPT ![t] = "done"]
            /\ UNCHANGED exc
       ELSE /\ exc' = [exc EXCEPT ![t] = Reraise(e, image[t].str)]
            /\ pc' = [pc EXCEPT ![t] = "raised"]
            /\ UNCHANGED <<raw_data, repr>>
    /\ UNCHANGED <<environ, fs, cls, image, root_path, path, response,
                   directory, constructed, exec_result, res>>

\* the call returns: the caller's collector stores the new wrapper under the
\* next key, or the exception has reached the caller and no object exists
Return(t) ==
    /\ pc[t] \in {"done", "raised"}
    /\ exec_result' = IF pc[t] = "done"
                      THEN Append(exec_result, WrapperValue(Self(t)))
                      ELSE exec_result
    /\ pc' = [pc EXCEPT ![t] = "idle"]
    /\ cls' = [cls EXCEPT ![t] = "none"]
    /\ image' = [image EXCEPT ![t] = NoInput]
    /\ root_path' = [root_path EXCEPT ![t] = NoneStr]
    /\ path' = [path EXCEPT ![t] = NoneStr]
    /\ raw_data' = [raw_data EXCEPT ![t] = NoneImage]
    /\ repr' = [repr EXCEPT ![t] = NoneStr]
    /\ response' = [response EXCEPT ![t] = NoResponse]
    /\ directory' = [directory EXCEPT ![t] = NoneStr]
    /\ exc' = [exc EXCEPT ![t] = NoExc]
    /\ UNCHANGED <<environ, fs, constructed, res>>

\* another process removes a file
ExternalRemove(p) ==
    /\ Exists(fs, p)
    /\ fs' = RemoveEntry(fs, p)
    /\ UNCHANGED <<environ, pc, cls, image, root_path, path, raw_data, repr,
                   response, directory, exc, constructed, exec_result, res>>

\* the collector calls get_raw_output on its mapping
GetRawOutput ==
    /\ res' = get_raw_output(exec_result)
    /\ UNCHANGED <<environ, fs, pc, cls, image, root_path, path, raw_data, repr,
                   response, directory, exc, constructed, exec_result>>

-----------------------------------------------------------------------------
(* Specifications *)

ConstructImage(t) == \E inp \in Inputs : Construct(t, "ImageWrapper", inp)
ConstructBase(t) == Construct(t, "OutputWrapper", NoInput)
ConstructInMemory(t) == \E inp \in InMemoryInputs : Construct(t, "ImageWrapper", inp)
ConstructRemote(t) == \E u \in URLs : Construct(t, "ImageWrapper", StrInput(u))

Step(t) ==
    \/ Makedirs(t)
    \/ Body(t)
    \/ Get(t)
    \/ Mkdtemp(t)
    \/ WriteFile(t)
    \/ Open(t)
    \/ Return(t)

\* no constructor call is in progress
Quiet == \A t \in Threads : pc[t] = "idle"

\* single-threaded use (spec section 5): the one thread constructs wrappers of
\* every kind one after the other and calls get_raw_output between them, while
\* other processes may remove files
Next ==
    \/ constructed < MaxCalls /\ ConstructImage(MainThread)
    \/ constructed < MaxCalls /\ ConstructBase(MainThread)
    \/ Step(MainThread)
    \/ \E p \in Removable : ExternalRemove(p)
    \/ Quiet /\ GetRawOutput

Spec == Init /\ [][Next]_vars

\* concurrent use: the threads' constructor calls, each materializing a file
\* from an in-memory image or a remote locator, interleave step by step
ConcNext ==
    \/ \E t \in Threads : constructed < NumObjects /\ ConstructInMemory(t)
    \/ \E t \in Threads : constructed < NumObjects /\ ConstructRemote(t)
    \/ \E t \in Threads : Step(t)

ConcSpec == Init /\ [][ConcNext]_vars

-----------------------------------------------------------------------------
(* Vocabulary of the properties *)

Finished(t) == pc[t] \in {"done", "raised"}

\* the argument is a string that was not an existing file and whose retrieval
\* raised a RequestException
FailedRetrieval(t) == image[t].type = "str" /\ response[t] = RequestException

\* the argument is a string that was not an existing file and whose retrieval
\* returned a body
SucceededRetrieval(t) == image[t].type = "str" /\ response[t].status = "ok"

\* the argument is a string that os.path.isfile classified as an existing file
ClassifiedLocal(t) ==
    /\ image[t].type = "str"
    /\ response[t] = NoResponse
    /\ pc[t] \in {"open", "done", "raised"}

\* tempfile.mkdtemp raised
MkdtempRaised(t) ==
    /\ pc[t] = "raised"
    /\ exc[t].type \in {"NotADirectoryError", "PermissionError"}

\* the wrappers the collector holds
Collected == {exec_result[k].w : k \in {j \in DOMAIN exec_result : exec_result[j].tag = "wrapper"}}

-----------------------------------------------------------------------------
(* C1 *)

\* C1: for a string that is not an existing local file and whose retrieval fails
\* with a network exception, the construction does not raise and ends with
\* storage_path equal to the input string and raw_data absent.
C1_FailedRetrievalDegrades ==
    \A t \in Threads :
        FailedRetrieval(t) /\ Finished(t) =>
            /\ pc[t] = "done"
            /\ path[t] = image[t].str
            /\ raw_data[t] = NoneImage

-----------------------------------------------------------------------------
(* C2 *)

-----------------------------------------------------------------------------
(* C3 *)

\* C3: construction raises only when the input is a string classified as an
\* existing local file that cannot be opened at decode time; a remote locator
\* (retrieval failed, or succeeded with any bytes) and an in-memory input never
\* make it raise.
C3_RaisesOnlyForLocalFile ==
    \A t \in Threads : pc[t] = "raised" => ClassifiedLocal(t)

-----------------------------------------------------------------------------
(* C4 *)

\* C4: every successfully constructed ImageWrapper, and every one the collector
\* holds, has a textual representation that is set and equals
\* '![IMAGEGEN](' + storage_path + ')'.
C4_ReprIsImagegenOfPath ==
    /\ \A t \in Threads :
        pc[t] = "done" /\ cls[t] = "ImageWrapper" =>
            /\ repr[t] # NoneStr
            /\ path[t] # NoneStr
            /\ repr[t] = "![IMAGEGEN](" \o path[t] \o ")"
    /\ \A w \in Collected :
        w.cls = "ImageWrapper" =>
            /\ w.repr # NoneStr
            /\ w.repr = "![IMAGEGEN](" \o w.path \o ")"

\* a wrapper built from a fetched remote image is complete while the collector
\* holds one built from the local file or from an in-memory image
C4_Witness ==
    \E t \in Threads :
        /\ pc[t] = "done"
        /\ SucceededRetrieval(t)
        /\ repr[t] = "![IMAGEGEN](" \o path[t] \o ")"
        /\ \E w \in Collected : w.cls = "ImageWrapper" /\ w.path # path[t]

-----------------------------------------------------------------------------
(* C5, C6 *)

\* the value the collector expects for an entry of its mapping
ExpectedRaw(v) ==
    IF v.tag # "wrapper" THEN v
    ELSE IF v.w.raw_data # NoneImage THEN ImageValue(v.w.raw_data)
    ELSE StrValue(v.w.repr)

\* C5: for every mapping, the result of get_raw_output has the key set of the
\* input; a wrapper's key maps to its raw_data when present and otherwise to its
\* textual representation string; every other key maps to the input value.
C5_ResultMirrorsMapping ==
    res.called =>
        /\ res.exc = NoExc
        /\ DOMAIN res.out = DOMAIN res.arg
        /\ \A k \in DOMAIN res.arg :
            /\ res.out[k] = ExpectedRaw(res.arg[k])
            /\ res.out[k].tag = "str" => res.out[k].s # NoneStr

\* C6: get_raw_output is total: whatever wrappers the mapping holds, a base
\* OutputWrapper whose textual representation was never set included, the call
\* returns a result and does not raise.
C6_NeverRaises == res.called => res.exc = NoExc

-----------------------------------------------------------------------------
(* C7 *)

\* C7: for every string that is not an existing local file and whose
\* retrieval succeeds, construction completes with storage_path a new local
\* png file, different from the input, holding the retrieved bytes, and with
\* raw_data present.
C7_EverySuccessfulRetrievalCompletes ==
    \A t \in Threads :
        SucceededRetrieval(t) /\ Finished(t) =>
            /\ pc[t] = "done"
            /\ path[t] # image[t].str
            /\ IsFile(fs, path[t])
            /\ fs[path[t]].bytes = response[t].content
            /\ raw_data[t] # NoneImage

-----------------------------------------------------------------------------
(* C8 *)

\* thread t completes a construction from an in-memory input or from an
\* existing local file in this step
CompletesLocal(t) ==
    /\ pc[t] # "done"
    /\ pc'[t] = "done"
    /\ cls'[t] = "ImageWrapper"
    /\ response'[t] = NoResponse

\* C8: when a construction from an in-memory input (array or image handle) or
\* from an existing decodable local path completes, raw_data is present, a file
\* exists at storage_path and decodes to the pixels of raw_data; for a local
\* path storage_path is the input string, for an image handle raw_data is the
\* handle passed in, for an array raw_data holds its elements as uint8.
C8_LocalRoundTrip ==
    [][\A t \in Threads :
         CompletesLocal(t) =>
            /\ raw_data'[t] # NoneImage
            /\ IsFile(fs', path'[t])
            /\ SubSeq(fs'[path'[t]].bytes, 1, 2) = <<137, 80>>
            /\ SubSeq(fs'[path'[t]].bytes, 3, Len(fs'[path'[t]].bytes))
                   = raw_data'[t].px
            /\ image'[t].type = "str" => path'[t] = image'[t].str
            /\ image'[t].type = "Image" => raw_data'[t] = image'[t].img
            /\ image'[t].type = "ndarray" =>
                   /\ Len(raw_data'[t].px) = Len(image'[t].arr)
                   /\ \A i \in DOMAIN image'[t].arr :
                       /\ raw_data'[t].px[i] \in 0..255
                       /\ (raw_data'[t].px[i] - image'[t].arr[i]) % 256 = 0
      ]_vars

\* a wrapper of the local file is complete while the collector holds the one
\* built from the image handle
C8_Witness ==
    \E t \in Threads :
        /\ pc[t] = "done"
        /\ ClassifiedLocal(t)
        /\ image[t].str = "/img.png"
        /\ raw_data[t].px = <<7>>
        /\ \E w \in Collected : w.raw_data.id = 1 /\ IsFile(fs, w.path)

-----------------------------------------------------------------------------
(* C9 *)

\* threads that hold a materialized directory or file
HasDirectory(t) == directory[t] # NoneStr
HasArtifact(t) == directory[t] # NoneStr /\ path[t] # NoneStr

\* no two constructions, in progress or collected, share a directory or a path
C9_Distinct ==
    /\ \A t, u \in Threads :
        t # u /\ HasDirectory(t) /\ HasDirectory(u) => directory[t] # directory[u]
    /\ \A t, u \in Threads :
        t # u /\ HasArtifact(t) /\ HasArtifact(u) => path[t] # path[u]
    /\ \A j, k \in DOMAIN exec_result :
        j # k /\ exec_result[j].tag = "wrapper" /\ exec_result[k].tag = "wrapper"
            => exec_result[j].w.path # exec_result[k].w.path
    /\ \A t \in Threads : \A w \in Collected :
        HasDirectory(t) /\ pc[t] # "done" =>
            /\ w.path # path[t]
            /\ fs[w.path].parent # directory[t]

\* a step that creates a directory or writes a file creates one that did not
\* exist, inside the directory the same construction created
C9_Fresh ==
    \A t \in Threads :
        /\ directory'[t] # directory[t] /\ directory'[t] # NoneStr
              => directory'[t] \notin DOMAIN fs
        /\ pc[t] = "write" /\ pc'[t] # "write"
              => /\ path'[t] \notin DOMAIN fs
                 /\ fs'[path'[t]].parent = directory[t]

\* C9: under every interleaving of constructions from in-memory inputs and of
\* remote fetches that materialize a file, all under the same root, no two
\* wrappers end with the same storage_path and no construction writes into a
\* directory or over a file that another construction created.
C9_NoCollision == []C9_Distinct /\ [][C9_Fresh]_vars

\* two constructions, one from an in-memory image and one from a remote
\* locator, have run concurrently and both hold their file
C9_Witness ==
    \E t, u \in Threads :
        /\ t # u
        /\ pc[t] = "done" /\ image[t].type # "str"
        /\ pc[u] = "done" /\ SucceededRetrieval(u)
        /\ fs[directory[t]].parent = fs[directory[u]].parent

-----------------------------------------------------------------------------
(* C10 *)

\* the configured directory is set and can hold new subdirectories
ConfiguredUsable == environ # NoneStr /\ IsDir(fs, environ) /\ fs[environ].writable

\* C10: whatever OUTPUT_FILE_DIRECTORY is, resolving the root never raises and
\* every materialization that follows succeeds in creating its artifact, under
\* the configured directory when that is set and usable and under the platform
\* default temp root otherwise.
C10_ArtifactsUnderResolvedRoot ==
    \A t \in Threads :
        /\ pc[t] \in {"body", "get", "mkdtemp"} => exc[t] = NoExc
        /\ ~MkdtempRaised(t)
        /\ HasDirectory(t) =>
              fs[directory[t]].parent = IF ConfiguredUsable THEN environ ELSE "/tmp"

====
